---- MODULE Spec2Model ----
(***************************************************************************)
(* The Go backend of server.go (one handler: sleep, build a large body,    *)
(* write it) behind the nginx reverse proxy of nginx.conf.  Time is in     *)
(* seconds and advances from one timer expiry to the next.                 *)
(***************************************************************************)
EXTENDS Integers, Sequences, FiniteSets

(* ---------------------------- bounds ----------------------------------- *)

\* number of connections (requests) the environment opens
NumRequests == 2
\* the payload is transferred in this many equal pieces
NumCells == 2
\* seconds the network needs per piece on a fast and on a slow link
FastCell == 1
SlowCell == 400

(* ------------------------ program constants ---------------------------- *)

\* time.Sleep(time.Second * 10)
SleepSeconds == 10
\* size := 900 * 1000 * 1000
size == 900 * 1000 * 1000
\* WriteTimeout: 10 * time.Minute (a zero value would mean no deadline)
WriteTimeout == 10 * 60
\* proxy_read_timeout 2s
proxy_read_timeout == 2
\* Kong override read_timeout: 10000000 ms
KongReadTimeout == 10000

\* the read timeouts the proxy in front of the backend is deployed with
ProxyTimeouts == {proxy_read_timeout, KongReadTimeout}

ErrParse == "error parsing template"
\* "error writing: %s" with the two errors a write to the connection returns
ErrBrokenPipe == "error writing: broken pipe"
ErrTimeout == "error writing: i/o timeout"
ErrWrite == {ErrBrokenPipe, ErrTimeout}

Requests == 1..NumRequests
\* seconds per piece; 0 stands for a peer that keeps the connection open
\* and never reads
Rates == {0, FastCell, SlowCell}
CellBytes == size \div NumCells

(* ------------------------- pure functions ------------------------------ *)

\* mutant: the buffer is one cell short of size
tplShort == [i \in 1..(NumCells - 1) |-> 0]

\* tpl := make([]byte, size): zero-initialised; one model cell per CellBytes
tpl == [i \in 1..NumCells |-> 0]

\* template.Parse: input without the "{{" delimiter (byte 123 twice) is one
\* text node; an action is not modelled further and counts as a parse error
Parse(s) ==
    IF \E i \in 1..(Len(s) - 1) : s[i] = 123 /\ s[i + 1] = 123
    THEN [err |-> TRUE, text |-> <<>>]
    ELSE [err |-> FALSE, text |-> s]

SetMin(S) == CHOOSE x \in S : \A y \in S : x <= y

(* ------------------------------ state ---------------------------------- *)

VARIABLES
    srv,          \* "starting" | "listening" | "exited"
    readTimeout,  \* the proxy's configured read timeout
    pc,           \* per request: "idle" | "sleep" | "parse" | "write" (about to
                  \* hand a cell to the connection) | "wait" (blocked in the
                  \* write) | "done"
    via,          \* how clients reach the backend: "proxy" | "direct"
    rate,         \* per request: seconds the peer needs per cell, 0 = never reads
    e,            \* per request: seconds since the handler started (0 once returned)
    idle,         \* per request: seconds the proxy has waited for data on the
                  \* open connection since it last read some
    peer,         \* per request: "open" | "timeout" (closed by proxy timer) | "abort"
    closedIn,     \* per request: pc of the handler when the peer closed, or "none"
    cellLeft,     \* per request: seconds until the cell in flight is delivered
    written,      \* per request: cells of the body delivered to the peer
    attempts,     \* per request: calls of t.Execute
    logs,         \* per request: the handler's log entries
    sawFail,      \* per request: another request failed while this one was handled
    afterFail     \* per request: accepted after some request had failed

vars == <<srv, readTimeout, pc, via, rate, e, idle, peer, closedIn, cellLeft,
          written, attempts, logs, sawFail, afterFail>>

Running(r) == pc[r] \in {"sleep", "parse", "write", "wait"}
Failed(r) == pc[r] = "done" /\ logs[r] # <<>>
BytesWritten(r) == written[r] * CellBytes

Init ==
    /\ srv = "starting"
    /\ \/ via = "proxy" /\ readTimeout \in ProxyTimeouts
       \/ via = "direct" /\ readTimeout = proxy_read_timeout
    /\ pc = [r \in Requests |-> "idle"]
    /\ rate = [r \in Requests |-> FastCell]
    /\ e = [r \in Requests |-> 0]
    /\ idle = [r \in Requests |-> 0]
    /\ peer = [r \in Requests |-> "open"]
    /\ closedIn = [r \in Requests |-> "none"]
    /\ cellLeft = [r \in Requests |-> 0]
    /\ written = [r \in Requests |-> 0]
    /\ attempts = [r \in Requests |-> 0]
    /\ logs = [r \in Requests |-> <<>>]
    /\ sawFail = [r \in Requests |-> FALSE]
    /\ afterFail = [r \in Requests |-> FALSE]

(* ------------------------------ server -------------------------------- *)

\* log.Println("server is running!"); srv.ListenAndServe() binds and serves
Listen ==
    /\ srv = "starting"
    /\ srv' = "listening"
    /\ UNCHANGED <<readTimeout, pc, via, rate, e, idle, peer, closedIn,
                   cellLeft, written, attempts, logs, sawFail, afterFail>>

\* ListenAndServe returns (bind or accept error); main logs it and returns,
\* which ends the process and every handler with it
ListenAndServeReturns ==
    /\ srv \in {"starting", "listening"}
    /\ srv' = "exited"
    /\ UNCHANGED <<readTimeout, pc, via, rate, e, idle, peer, closedIn,
                   cellLeft, written, attempts, logs, sawFail, afterFail>>

\* the server accepts a connection and starts the handler in its own
\* goroutine; the handler begins with time.Sleep
Accept(r, k) ==
    /\ srv = "listening"
    /\ pc[r] = "idle"
    /\ \A q \in Requests : q < r => pc[q] # "idle"
    /\ pc' = [pc EXCEPT ![r] = "sleep"]
    /\ rate' = [rate EXCEPT ![r] = k]
    /\ afterFail' = [afterFail EXCEPT ![r] = \E q \in Requests : Failed(q)]
    /\ UNCHANGED <<srv, readTimeout, via, e, idle, peer, closedIn, cellLeft,
                   written, attempts, logs, sawFail>>

(* ------------------------------ handler -------------------------------- *)

\* mutant: the delay is not waited out (time.Sleep(10) is 10 nanoseconds)
WakeEarly(r) ==
    /\ srv = "listening"
    /\ pc[r] = "sleep"
    /\ pc' = [pc EXCEPT ![r] = "parse"]
    /\ UNCHANGED <<srv, readTimeout, via, rate, e, idle, peer, closedIn,
                   cellLeft, written, attempts, logs, sawFail, afterFail>>

\* mutant: the sleep selects on the request context and the handler returns
\* as soon as the peer is gone
WakeCancel(r) ==
    /\ srv = "listening"
    /\ pc[r] = "sleep"
    /\ IF peer[r] # "open"
       THEN /\ pc' = [pc EXCEPT ![r] = "done"]
            /\ e' = [e EXCEPT ![r] = 0]
       ELSE /\ e[r] >= SleepSeconds
            /\ pc' = [pc EXCEPT ![r] = "parse"]
            /\ UNCHANGED e
    /\ UNCHANGED <<srv, readTimeout, via, rate, idle, peer, closedIn,
                   cellLeft, written, attempts, logs, sawFail, afterFail>>

\* time.Sleep returns once the delay has elapsed
Wake(r) ==
    /\ srv = "listening"
    /\ pc[r] = "sleep"
    /\ e[r] >= SleepSeconds
    /\ pc' = [pc EXCEPT ![r] = "parse"]
    /\ UNCHANGED <<srv, readTimeout, via, rate, e, idle, peer, closedIn,
                   cellLeft, written, attempts, logs, sawFail, afterFail>>

\* t, err := template.New("page").Parse(string(tpl)); on an error log and
\* return, otherwise call t.Execute(w, nil)
ParseStep(r) ==
    /\ srv = "listening"
    /\ pc[r] = "parse"
    /\ IF Parse(tpl).err
       THEN /\ logs' = [logs EXCEPT ![r] = Append(@, ErrParse)]
            /\ pc' = [pc EXCEPT ![r] = "done"]
            /\ e' = [e EXCEPT ![r] = 0]
            /\ idle' = [idle EXCEPT ![r] = 0]
            /\ UNCHANGED attempts
       ELSE /\ pc' = [pc EXCEPT ![r] = "write"]
            /\ attempts' = [attempts EXCEPT ![r] = @ + 1]
            /\ UNCHANGED <<logs, e, idle>>
    /\ UNCHANGED <<srv, readTimeout, via, rate, peer, closedIn,
                   cellLeft, written, sawFail, afterFail>>

\* mutant: http.Server is built without WriteTimeout
NoWriteDeadline == FALSE

\* the server sets the connection's write deadline when WriteTimeout > 0
HasWriteDeadline == WriteTimeout > 0

\* mutant: WriteTimeout is 10 * time.Second
DeadlinePassedSeconds(r) == HasWriteDeadline /\ e[r] >= WriteTimeout \div 60

DeadlinePassed(r) == HasWriteDeadline /\ e[r] >= WriteTimeout

\* the error of a write now: the deadline is checked before the socket
WriteErr(r) == IF DeadlinePassed(r) THEN ErrTimeout ELSE ErrBrokenPipe

\* mutant: the return after the log is missing and Execute is called again
WriteErrorRetry(r) ==
    /\ logs' = [logs EXCEPT ![r] = Append(@, WriteErr(r))]
    /\ pc' = [pc EXCEPT ![r] = "write"]
    /\ attempts' = [attempts EXCEPT ![r] = @ + 1]
    /\ cellLeft' = [cellLeft EXCEPT ![r] = 0]
    /\ UNCHANGED <<srv, readTimeout, via, rate, e, idle, peer, closedIn,
                   written, sawFail, afterFail>>

\* mutant: the error lives in a variable shared by all handlers, so every
\* handler inside Execute sees it and fails too
WriteErrorShared(r) ==
    LET hit(q) == q = r \/ pc[q] \in {"write", "wait"} IN
    /\ logs' = [q \in Requests |->
                  IF hit(q) THEN Append(logs[q], WriteErr(r)) ELSE logs[q]]
    /\ pc' = [q \in Requests |-> IF hit(q) THEN "done" ELSE pc[q]]
    /\ e' = [q \in Requests |-> IF hit(q) THEN 0 ELSE e[q]]
    /\ idle' = [q \in Requests |-> IF hit(q) THEN 0 ELSE idle[q]]
    /\ cellLeft' = [q \in Requests |-> IF hit(q) THEN 0 ELSE cellLeft[q]]
    /\ sawFail' = [q \in Requests |-> sawFail[q] \/ (q # r /\ Running(q))]
    /\ UNCHANGED <<srv, readTimeout, via, rate, peer, closedIn,
                   written, attempts, afterFail>>

\* mutant: the error is logged with log.Fatalf, which ends the process
WriteErrorFatal(r) ==
    /\ logs' = [logs EXCEPT ![r] = Append(@, WriteErr(r))]
    /\ pc' = [pc EXCEPT ![r] = "done"]
    /\ srv' = "exited"
    /\ e' = [e EXCEPT ![r] = 0]
    /\ idle' = [idle EXCEPT ![r] = 0]
    /\ cellLeft' = [cellLeft EXCEPT ![r] = 0]
    /\ sawFail' = [q \in Requests |-> sawFail[q] \/ (q # r /\ Running(q))]
    /\ UNCHANGED <<readTimeout, via, rate, peer, closedIn,
                   written, attempts, afterFail>>

\* mutant: the write error is swallowed, the handler returns without logging
WriteErrorSilent(r) ==
    /\ pc' = [pc EXCEPT ![r] = "done"]
    /\ e' = [e EXCEPT ![r] = 0]
    /\ idle' = [idle EXCEPT ![r] = 0]
    /\ cellLeft' = [cellLeft EXCEPT ![r] = 0]
    /\ UNCHANGED <<srv, readTimeout, via, rate, peer, closedIn, logs, sawFail,
                   written, attempts, afterFail>>

\* if err := t.Execute(w, nil); err != nil { log.Printf("error writing: %s", err); return }
WriteError(r) ==
    /\ logs' = [logs EXCEPT ![r] = Append(@, WriteErr(r))]
    /\ pc' = [pc EXCEPT ![r] = "done"]
    /\ e' = [e EXCEPT ![r] = 0]
    /\ idle' = [idle EXCEPT ![r] = 0]
    /\ cellLeft' = [cellLeft EXCEPT ![r] = 0]
    /\ sawFail' = [q \in Requests |-> sawFail[q] \/ (q # r /\ Running(q))]
    /\ UNCHANGED <<srv, readTimeout, via, rate, peer, closedIn,
                   written, attempts, afterFail>>

\* Execute hands the next piece of the text node to the connection: the
\* write fails on a closed connection or a passed deadline, else it blocks
Send(r) ==
    /\ srv = "listening"
    /\ pc[r] = "write"
    /\ IF peer[r] # "open" \/ DeadlinePassed(r)
       THEN WriteError(r)
       ELSE /\ pc' = [pc EXCEPT ![r] = "wait"]
            /\ cellLeft' = [cellLeft EXCEPT ![r] = rate[r]]
            /\ UNCHANGED <<srv, readTimeout, via, rate, e, idle, peer,
                           closedIn, written, attempts, logs, sawFail, afterFail>>

\* the peer has taken the piece; Execute returns nil after the last one and
\* the handler returns without logging
Deliver(r) ==
    /\ srv = "listening"
    /\ pc[r] = "wait"
    /\ peer[r] = "open"
    /\ rate[r] # 0
    /\ cellLeft[r] = 0
    /\ written' = [written EXCEPT ![r] = @ + 1]
    /\ idle' = [idle EXCEPT ![r] = 0]
    /\ IF written[r] + 1 = Len(Parse(tpl).text)
       THEN /\ pc' = [pc EXCEPT ![r] = "done"]
            /\ e' = [e EXCEPT ![r] = 0]
       ELSE /\ pc' = [pc EXCEPT ![r] = "write"]
            /\ UNCHANGED e
    /\ UNCHANGED <<srv, readTimeout, via, rate, peer, closedIn, cellLeft,
                   attempts, logs, sawFail, afterFail>>

\* the blocked write returns an error: the peer closed the connection
\* (broken pipe) or the write deadline passed (i/o timeout)
WriteFail(r) ==
    /\ srv = "listening"
    /\ pc[r] = "wait"
    /\ peer[r] # "open" \/ DeadlinePassed(r)
    /\ WriteError(r)

(* ------------------------------- peers --------------------------------- *)

\* mutant: the timeout is taken in minutes
ProxyDeadlineMinutes == readTimeout * 60

\* proxy_read_timeout is given in seconds
ProxyDeadline == readTimeout

\* nginx: no data from the upstream for proxy_read_timeout seconds; it
\* answers 504 and closes the connection to the backend
ProxyTimeout(r) ==
    /\ srv = "listening"
    /\ Running(r)
    /\ via = "proxy"
    /\ peer[r] = "open"
    /\ idle[r] >= ProxyDeadline
    /\ peer' = [peer EXCEPT ![r] = "timeout"]
    /\ closedIn' = [closedIn EXCEPT ![r] = pc[r]]
    /\ idle' = [idle EXCEPT ![r] = 0]
    /\ UNCHANGED <<srv, readTimeout, pc, via, rate, e, cellLeft,
                   written, attempts, logs, sawFail, afterFail>>

\* the client gives up while the handler is blocked; its connection (or
\* the proxy's, on its behalf) closes
ClientClose(r) ==
    /\ srv = "listening"
    /\ pc[r] \in {"sleep", "wait"}
    /\ peer[r] = "open"
    /\ peer' = [peer EXCEPT ![r] = "abort"]
    /\ closedIn' = [closedIn EXCEPT ![r] = pc[r]]
    /\ idle' = [idle EXCEPT ![r] = 0]
    /\ UNCHANGED <<srv, readTimeout, pc, via, rate, e, cellLeft,
                   written, attempts, logs, sawFail, afterFail>>

(* -------------------------------- time --------------------------------- *)

\* seconds until each pending timer of request r expires
Timers(r) ==
    (IF pc[r] = "sleep" THEN {SleepSeconds - e[r]} ELSE {})
    \cup (IF pc[r] = "wait" /\ rate[r] # 0 THEN {cellLeft[r]} ELSE {})
    \cup (IF pc[r] = "wait" /\ HasWriteDeadline THEN {WriteTimeout - e[r]} ELSE {})
    \cup (IF Running(r) /\ via = "proxy" /\ peer[r] = "open"
          THEN {ProxyDeadline - idle[r]} ELSE {})

\* a step of request r that takes no time is pending
Due(r) ==
    \/ pc[r] \in {"parse", "write"}
    \/ pc[r] = "wait" /\ peer[r] # "open"
    \/ \E t \in Timers(r) : t <= 0

AllTimers == UNION {Timers(r) : r \in Requests}

\* time passes up to the next timer expiry
Tick ==
    /\ srv = "listening"
    /\ AllTimers # {}
    /\ \A r \in Requests : ~Due(r)
    /\ LET d == SetMin(AllTimers) IN
        /\ e' = [r \in Requests |-> IF Running(r) THEN e[r] + d ELSE e[r]]
        /\ idle' = [r \in Requests |->
                      IF Running(r) /\ via = "proxy" /\ peer[r] = "open"
                      THEN idle[r] + d ELSE idle[r]]
        /\ cellLeft' = [r \in Requests |->
                          IF pc[r] = "wait" /\ rate[r] # 0
                          THEN cellLeft[r] - d ELSE cellLeft[r]]
    /\ UNCHANGED <<srv, readTimeout, pc, via, rate, peer, closedIn, written,
                   attempts, logs, sawFail, afterFail>>

(* ---------------------------- specification ---------------------------- *)

Handler(r) ==
    \/ Wake(r)
    \/ ParseStep(r)
    \/ Send(r)
    \/ Deliver(r)
    \/ WriteFail(r)

Next ==
    \/ Listen
    \/ ListenAndServeReturns
    \/ \E r \in Requests, k \in Rates : Accept(r, k)
    \/ \E r \in Requests : Handler(r)
    \/ \E r \in Requests : ProxyTimeout(r)
    \/ \E r \in Requests : ClientClose(r)
    \/ Tick

Spec == Init /\ [][Next]_vars

\* the Go scheduler runs every runnable handler, timers expire, and nginx
\* enforces its timer
Fairness ==
    /\ WF_vars(Tick)
    /\ \A r \in Requests : WF_vars(Handler(r))
    /\ \A r \in Requests : WF_vars(ProxyTimeout(r))

FairSpec == Spec /\ Fairness

(* ------------------------------ properties ---------------------------- *)

\* the whole body, in cells
Full == NumCells
\* seconds the peer of request r needs to take the whole body
Tx(r) == NumCells * rate[r]

TypeOK ==
    /\ srv \in {"starting", "listening", "exited"}
    /\ readTimeout \in ProxyTimeouts
    /\ via \in {"proxy", "direct"}
    /\ \A r \in Requests :
        /\ pc[r] \in {"idle", "sleep", "parse", "write", "wait", "done"}
        /\ e[r] >= 0 /\ idle[r] >= 0 /\ cellLeft[r] >= 0
        /\ written[r] \in 0..NumCells
        /\ Len(logs[r]) <= 2

\* C1: behind a proxy whose read timeout is shorter than the handler's delay,
\* the proxy has closed the connection before the handler starts to write,
\* and the handler ends in the "error writing" branch with nothing delivered.
C1_ProxyCutsBeforeWrite ==
    \A r \in Requests :
        (via = "proxy" /\ readTimeout < SleepSeconds) =>
            /\ pc[r] \in {"parse", "write", "wait", "done"} => peer[r] # "open"
            /\ pc[r] # "wait"
            /\ pc[r] = "done" =>
                  logs[r] = <<ErrBrokenPipe>> /\ written[r] = 0 /\ attempts[r] = 1

C1_Witness ==
    \E r \in Requests :
        /\ via = "proxy" /\ readTimeout = proxy_read_timeout
        /\ readTimeout < SleepSeconds
        /\ pc[r] = "done" /\ peer[r] = "timeout" /\ closedIn[r] = "sleep"
        /\ logs[r] = <<ErrBrokenPipe>>

\* C2 as stated: behind a proxy whose timeout exceeds delay plus transmission
\* time, every request whose client stays connected ends without an error,
\* fully delivered and not cut by the proxy.
C2_AsStated ==
    \A r \in Requests :
        (/\ via = "proxy" /\ rate[r] # 0
         /\ readTimeout > SleepSeconds + Tx(r)
         /\ pc[r] = "done" /\ peer[r] # "abort") =>
            logs[r] = <<>> /\ written[r] = Full /\ peer[r] = "open"

\* C2 amended: the same, for requests whose delay plus transmission time
\* also stays below the backend's own WriteTimeout.
C2_CompletesBelowWriteTimeout ==
    \A r \in Requests :
        (/\ via = "proxy" /\ rate[r] # 0
         /\ readTimeout > SleepSeconds + Tx(r)
         /\ SleepSeconds + Tx(r) < WriteTimeout
         /\ pc[r] = "done" /\ peer[r] # "abort") =>
            /\ logs[r] = <<>> /\ peer[r] = "open"
            /\ written[r] = Full /\ BytesWritten(r) = size

C2_Witness ==
    \E r \in Requests :
        /\ via = "proxy" /\ rate[r] = FastCell
        /\ readTimeout > SleepSeconds + Tx(r)
        /\ pc[r] = "done" /\ logs[r] = <<>> /\ BytesWritten(r) = size

\* C3 as stated: a finished request has exactly one log entry.
C3_AsStated ==
    \A r \in Requests : pc[r] = "done" => Len(logs[r]) = 1

\* C3 amended: a request never has more than one log entry; a finished
\* request has exactly one, a parse or write error, when it failed (body not
\* fully written), and none when the whole body was written.
C3_AtMostOneOutcome ==
    \A r \in Requests :
        /\ Len(logs[r]) <= 1
        /\ pc[r] # "done" => logs[r] = <<>>
        /\ pc[r] = "done" =>
              \/ logs[r] = <<>> /\ written[r] = Full
              \/ /\ Len(logs[r]) = 1 /\ logs[r][1] \in ErrWrite \cup {ErrParse}
                 /\ written[r] < Full

C3_Witness ==
    \E r, q \in Requests :
        /\ pc[r] = "done" /\ logs[r] = <<>> /\ written[r] = Full
        /\ pc[q] = "done" /\ Len(logs[q]) = 1 /\ logs[q][1] \in ErrWrite

\* C4: a request fails only by a parse error or a write error, logged once;
\* after the failure the handler has returned and nothing of the request
\* changes again (no retry, no further write); Execute is called at most
\* once; after a parse error nothing was written and Execute was not called.
C4_FailureIsTerminal ==
    /\ [](\A r \in Requests :
            /\ attempts[r] <= 1
            /\ logs[r] # <<>> =>
                  /\ pc[r] = "done" /\ Len(logs[r]) = 1
                  /\ logs[r][1] \in ErrWrite \cup {ErrParse}
            /\ logs[r] = <<ErrParse>> => written[r] = 0 /\ attempts[r] = 0)
    /\ [][\A r \in Requests :
            Failed(r) =>
                /\ pc'[r] = "done" /\ logs'[r] = logs[r]
                /\ written'[r] = written[r] /\ attempts'[r] = attempts[r]]_vars

C4_Witness ==
    \E r \in Requests :
        /\ pc[r] = "done" /\ logs[r] = <<ErrBrokenPipe>>
        /\ attempts[r] = 1 /\ written[r] = 1 /\ peer[r] # "open"

\* C5: a request sent directly to the backend, with delay plus transmission
\* time below WriteTimeout and a client that stays connected, ends with no
\* error and the whole body written.
C5_DirectCompletes ==
    \A r \in Requests :
        (/\ via = "direct" /\ rate[r] # 0
         /\ SleepSeconds + Tx(r) < WriteTimeout
         /\ peer[r] = "open") =>
            /\ logs[r] = <<>>
            /\ pc[r] = "done" => written[r] = Full

C5_Witness ==
    \E r \in Requests :
        /\ via = "direct" /\ rate[r] = FastCell /\ peer[r] = "open"
        /\ SleepSeconds + Tx(r) < WriteTimeout
        /\ pc[r] = "done" /\ logs[r] = <<>> /\ written[r] = Full

\* C6: the handler's steps come in the order sleep, parse, write: nothing is
\* written and Execute is not called before the full delay has elapsed, and
\* Execute is called only after a successful parse.
C6_SleepParseWrite ==
    \A r \in Requests :
        /\ pc[r] \in {"idle", "sleep", "parse"} => written[r] = 0 /\ attempts[r] = 0
        /\ pc[r] \in {"parse", "write", "wait"} => e[r] >= SleepSeconds
        /\ pc[r] \in {"write", "wait"} => attempts[r] = 1
        /\ (attempts[r] > 0 \/ written[r] > 0) => ~Parse(tpl).err
        /\ written[r] > 0 => attempts[r] = 1

C6_Witness ==
    \E r \in Requests :
        pc[r] = "wait" /\ written[r] = 1 /\ e[r] >= SleepSeconds /\ attempts[r] = 1

\* C7: a connection closed by the peer while the handler sleeps does not
\* interrupt it: the handler leaves the sleep only after the full delay,
\* logs nothing before, and ends with one failed write (broken pipe).
C7_NoCancellation ==
    \A r \in Requests :
        closedIn[r] = "sleep" =>
            /\ pc[r] \in {"sleep", "parse", "write", "done"}
            /\ pc[r] \in {"parse", "write"} => e[r] >= SleepSeconds
            /\ pc[r] # "done" => logs[r] = <<>>
            /\ pc[r] = "done" =>
                  logs[r] = <<ErrBrokenPipe>> /\ attempts[r] = 1 /\ written[r] = 0

C7_Witness ==
    \E r \in Requests :
        /\ via = "direct" /\ peer[r] = "abort" /\ closedIn[r] = "sleep"
        /\ pc[r] = "done" /\ logs[r] = <<ErrBrokenPipe>> /\ attempts[r] = 1

\* C8 as stated: a finished request has failed exactly when its own
\* connection was closed by the peer.
C8_AsStated ==
    \A r \in Requests :
        pc[r] = "done" => (logs[r] # <<>> <=> peer[r] # "open")

\* C8 amended: the outcome of a finished request is decided by its own
\* connection alone, whatever happened to the other requests: it failed if
\* the peer closed the connection; with the connection open it succeeded
\* if the peer takes the body within the write deadline, and failed with a
\* write timeout if the peer is too slow or never reads.
C8_OwnConnectionDecides ==
    \A r \in Requests :
        pc[r] = "done" =>
            /\ peer[r] # "open" => logs[r] # <<>> /\ logs[r][1] \in ErrWrite
            /\ (peer[r] = "open" /\ rate[r] # 0
                    /\ SleepSeconds + Tx(r) < WriteTimeout) =>
                  logs[r] = <<>> /\ written[r] = Full
            /\ (peer[r] = "open"
                    /\ (rate[r] = 0 \/ SleepSeconds + Tx(r) > WriteTimeout)) =>
                  logs[r] = <<ErrTimeout>>

C8_Witness ==
    \E r, q \in Requests :
        /\ r # q
        /\ pc[q] = "done" /\ logs[q] = <<ErrBrokenPipe>>
        /\ sawFail[r] /\ peer[r] = "open"
        /\ pc[r] = "done" /\ logs[r] = <<>> /\ written[r] = Full

\* C9: no handler stays blocked: while the server runs, a handler that has
\* not returned has run for at most WriteTimeout seconds, and a step of a
\* handler or of the proxy is pending or time can advance to the next timer;
\* so whatever the peer does the handler returns, at the latest when the
\* write deadline passes.
C9_ReturnsByWriteDeadline ==
    \A r \in Requests :
        (Running(r) /\ srv = "listening") =>
            /\ e[r] <= WriteTimeout
            /\ \/ ENABLED Handler(r)
               \/ ENABLED Tick
               \/ \E q \in Requests : ENABLED Handler(q) \/ ENABLED ProxyTimeout(q)

\* the same as a liveness property of FairSpec: a running handler eventually
\* returns, unless the process ends first
HandlerReturns ==
    \A r \in Requests : Running(r) ~> (pc[r] = "done" \/ srv = "exited")

C9_Witness ==
    \E r \in Requests :
        /\ pc[r] = "done" /\ logs[r] = <<ErrTimeout>>
        /\ peer[r] = "open" /\ rate[r] = 0 /\ written[r] = 0

\* C10: a request's failure leaves the server listening; the serving state
\* is left only by ListenAndServe returning, never by a handler's step; a
\* listening server accepts the next connection whatever failed before, and
\* a newly accepted request starts in the same fresh state.
C10_FailureKeepsServing ==
    /\ [][(\E r \in Requests : ~Failed(r) /\ Failed(r)') =>
              (srv = "listening" /\ srv' = "listening")]_vars
    /\ [][(srv = "listening" /\ srv' # "listening") =>
              (srv' = "exited" /\ pc' = pc /\ logs' = logs)]_vars
    /\ [][\A r \in Requests :
            (pc[r] = "idle" /\ pc'[r] # "idle") =>
                /\ pc'[r] = "sleep" /\ e'[r] = 0 /\ peer'[r] = "open"
                /\ written'[r] = 0 /\ attempts'[r] = 0 /\ logs'[r] = <<>>]_vars
    /\ [](srv = "listening" =>
            \A r \in Requests :
                (pc[r] = "idle" /\ \A q \in Requests : q < r => pc[q] # "idle") =>
                    \A k \in Rates : ENABLED Accept(r, k))

C10_Witness ==
    \E r \in Requests :
        /\ srv = "listening" /\ afterFail[r]
        /\ pc[r] = "done" /\ logs[r] = <<>> /\ written[r] = Full

====
